---- MODULE Spec2Model ----
(***************************************************************************)
(* Discrete-event model of the hospital simulation: run_sim (run_sim.py)   *)
(* wires patient_generator, patient_flow and monitor (hospital_model.py)   *)
(* to a SimPy environment.  The environment is modelled by what the calls  *)
(* made in the source do: env.process schedules an URGENT start event,     *)
(* env.timeout and a granted request schedule NORMAL events, events are    *)
(* dispatched by (time, priority, insertion id), Resource.request appends  *)
(* to the pool's queue and serves its head, Resource.release removes the   *)
(* user at once and serves the queue when the release event is dispatched. *)
(***************************************************************************)
EXTENDS Integers, Sequences, FiniteSets, TLC

VARIABLES config, run, now, eid, queue, users, putq, reqs, grants,
          i, patient, flow, held, metrics

vars == <<config, run, now, eid, queue, users, putq, reqs, grants,
          i, patient, flow, held, metrics>>

\* ------------------------------------------------------------------ bounds
\* Largest number of patients the generator creates in a modelled run.
MaxPatients == 3
\* sim_duration of the modelled runs.
Horizon == 5
\* sim_duration of the runs in which every created patient has time to finish.
LongHorizon == 20

\* ------------------------------------------------------- SimPy priorities
URGENT == 0
NORMAL == 1

Pools == {"prep", "op", "recovery"}
\* A timestamp local of patient_flow that is not bound yet.
Unset == -1

\* ------------------------------------------------------------ configuration
MakeConfig(dur, ia, pu, ou, ru, pm, om, rm, mi, blk) ==
    [sim_duration |-> dur, interarrival_mean |-> ia,
     prep_units |-> pu, op_units |-> ou, recovery_units |-> ru,
     prep_mean |-> pm, op_mean |-> om, recovery_mean |-> rm,
     monitor_interval |-> mi, block_or_until_recovery |-> blk]

\* A run of Horizon minutes with every mean 1 minute.
Run(pu, ou, ru, mi, blk) == MakeConfig(Horizon, 1, pu, ou, ru, 1, 1, 1, mi, blk)

\* The single-server scenario: one prep unit, one OR, one recovery unit, stage
\* means 10, 5 and 8 minutes, and no second arrival before the run ends.
Scenario(blk) == MakeConfig(30, 30, 1, 1, 1, 10, 5, 8, 5, blk)

\* The valid configurations of the modelled runs.
Configs ==
    {Run(1, 1, 1, 2, TRUE), Run(1, 1, 1, 1, FALSE), Run(1, 2, 1, 2, TRUE),
     Scenario(TRUE), Scenario(FALSE)}

\* The position in `facilities` (hospital_model) of the pool of a stage.
FacilityIndex(r) ==
    CASE r = "prep" -> 0
      [] r = "op" -> 1
      [] r = "recovery" -> 2

\* The capacity hospital_model builds facilities[n] with: conf['total'][n].
FacilityCapacity(cfg, r) == cfg.total[FacilityIndex(r)]

\* The capacity the pool of stage r is built with: by run_sim from the
\* *_units options, by hospital_model from conf['total'].
Capacity(cfg, r) ==
    IF "total" \in DOMAIN cfg THEN FacilityCapacity(cfg, r)
    ELSE CASE r = "prep" -> cfg.prep_units
           [] r = "op" -> cfg.op_units
           [] r = "recovery" -> cfg.recovery_units

\* config.expovariate(mean): random.expovariate(1.0 / mean), a draw of the
\* exponential distribution of that mean, which scales with the mean.  Two
\* draws stand for it: the mean and twice the mean (negative for a negative
\* mean).  mean = 0 raises ZeroDivisionError: there is no draw.
Expovariate(mean) == IF mean = 0 THEN {} ELSE {mean, 2 * mean}

\* ------------------------------------------------------- event scheduler
\* Variant of Before that leaves events of one time and priority unordered.
BeforeWithoutId(e, f) ==
    \/ e.time < f.time
    \/ e.time = f.time /\ e.prio < f.prio

\* Environment.schedule orders the heap by (time, priority, insertion id).
Before(e, f) ==
    \/ e.time < f.time
    \/ e.time = f.time /\ e.prio < f.prio
    \/ e.time = f.time /\ e.prio = f.prio /\ e.eid < f.eid

\* Environment.step may pop e next: no other event precedes it.
IsDue(e, q) == \A f \in q : ~Before(f, e)

Due(q) == {e \in q : IsDue(e, q)}

\* The scheduler and pool state one handler works on.
Kernel == [queue |-> queue, eid |-> eid, users |-> users, putq |-> putq,
           reqs |-> reqs, grants |-> grants]

\* Environment.step popped event e.
Pop(e) == [Kernel EXCEPT !.queue = @ \ {e}]

\* Environment.schedule(event, priority, delay) at clock t.
Schedule(k, t, delay, prio, kind, who, res) ==
    [k EXCEPT !.queue = @ \cup {[time |-> t + delay, prio |-> prio, eid |-> k.eid,
                                 kind |-> kind, who |-> who, res |-> res]},
              !.eid = @ + 1]

\* ----------------------------------------------------------- resource pool
Count(k, r) == Len(k.users[r])

\* Variant of Without that leaves the sequence as it is.
WithoutNone(s, p) == s

Without(s, p) == SelectSeq(s, LAMBDA x : x # p)

InSeq(s, p) == \E n \in 1..Len(s) : s[n] = p

\* Variant of TriggerPut that grants the head without looking at the count.
TriggerPutUnchecked(k, t, r) ==
    IF k.putq[r] # <<>>
    THEN LET p == Head(k.putq[r])
         IN Schedule([k EXCEPT !.users[r] = Append(@, p),
                               !.putq[r] = Tail(@),
                               !.grants[r] = Append(@, p)],
                     t, 0, NORMAL, "grant", p, r)
    ELSE k

\* Variant of TriggerPut that serves the most recent request first.
TriggerPutLast(k, t, r) ==
    IF k.putq[r] # <<>> /\ Count(k, r) < Capacity(config, r)
    THEN LET n == Len(k.putq[r])
             p == k.putq[r][n]
         IN Schedule([k EXCEPT !.users[r] = Append(@, p),
                               !.putq[r] = SubSeq(@, 1, n - 1),
                               !.grants[r] = Append(@, p)],
                     t, 0, NORMAL, "grant", p, r)
    ELSE k

\* BaseResource._trigger_put with Resource._do_put: the head of the queue is
\* granted a unit when one is free (it becomes a user and its request event
\* is scheduled); the loop stops after the head.
TriggerPut(k, t, r) ==
    IF k.putq[r] # <<>> /\ Count(k, r) < Capacity(config, r)
    THEN LET p == Head(k.putq[r])
         IN Schedule([k EXCEPT !.users[r] = Append(@, p),
                               !.putq[r] = Tail(@),
                               !.grants[r] = Append(@, p)],
                     t, 0, NORMAL, "grant", p, r)
    ELSE k

\* Resource.request(): the request joins the tail of the queue, then the
\* queue is served.
Request(k, t, r, p) ==
    TriggerPut([k EXCEPT !.putq[r] = Append(@, p), !.reqs[r] = Append(@, p)], t, r)

\* Variant of Release that frees the unit without scheduling the release
\* event, so that the queue is not served.
ReleaseSilently(k, t, r, p) == [k EXCEPT !.users[r] = Without(@, p)]

\* Resource.release(request), also the exit of `with pool.request()`: the
\* user is removed at once and the release event is scheduled; its callback
\* serves the queue when it is dispatched.
Release(k, t, r, p) ==
    Schedule([k EXCEPT !.users[r] = Without(@, p)], t, 0, NORMAL, "release", p, r)

Commit(k) ==
    /\ queue' = k.queue
    /\ eid' = k.eid
    /\ users' = k.users
    /\ putq' = k.putq
    /\ reqs' = k.reqs
    /\ grants' = k.grants

\* ------------------------------------------------------------------ run_sim
NoMetrics == [completed |-> 0, patient_times |-> <<>>, prep_q |-> <<>>,
              or_q |-> <<>>, rec_q |-> <<>>, or_util |-> <<>>]

EmptyPools == [r \in Pools |-> <<>>]

InitWith(cfgs) ==
    /\ config \in cfgs
    /\ run = "init"
    /\ now = 0
    /\ eid = 0
    /\ queue = {}
    /\ users = EmptyPools
    /\ putq = EmptyPools
    /\ reqs = EmptyPools
    /\ grants = EmptyPools
    /\ i = 0
    /\ patient = <<>>
    /\ flow = <<>>
    /\ held = <<>>
    /\ metrics = NoMetrics

Init == InitWith(Configs)

\* simpy.Resource(env, capacity) raises ValueError unless capacity > 0;
\* env.run(until) raises ValueError unless until > env.now.
Constructible(cfg) ==
    /\ cfg.prep_units > 0
    /\ cfg.op_units > 0
    /\ cfg.recovery_units > 0
    /\ cfg.sim_duration > 0

\* Variant of Until that runs one minute past the configured horizon.
UntilLate(cfg) == cfg.sim_duration + 1

\* The horizon handed to env.run(until=...).
Until(cfg) == cfg.sim_duration

\* run_sim up to the call of env.run: the pools and the metrics are built,
\* the generator and the monitor are started (one URGENT start event each),
\* and env.run schedules the URGENT stop event at sim_duration.
RunSim ==
    /\ run = "init"
    /\ Constructible(config)
    /\ run' = "running"
    /\ LET k1 == Schedule(Kernel, 0, 0, URGENT, "init_gen", 0, "none")
           k2 == Schedule(k1, 0, 0, URGENT, "init_mon", 0, "none")
           k3 == Schedule(k2, 0, Until(config), URGENT, "stop", 0, "none")
       IN Commit(k3)
    /\ UNCHANGED <<config, now, i, patient, flow, held, metrics>>

\* The stop event is dispatched: env.run returns at clock sim_duration.
StopSimulation ==
    \E e \in queue :
        /\ run = "running"
        /\ e.kind = "stop"
        /\ IsDue(e, queue)
        /\ now' = e.time
        /\ run' = "stopped"
        /\ Commit(Pop(e))
        /\ UNCHANGED <<config, i, patient, flow, held, metrics>>

\* ------------------------------------------------------------- the generator
NewFlow == [pc |-> "created",
            arrival_to_prep_q |-> Unset, start_prep |-> Unset, end_prep |-> Unset,
            arrival_to_or_q |-> Unset, start_op |-> Unset, end_op |-> Unset,
            arrival_to_rec_q |-> Unset, start_rec |-> Unset, end_rec |-> Unset]

NewHeld == [or_release |-> Unset, contended |-> FALSE]

\* The interarrival draw.  Once MaxPatients patients exist the draw is one
\* that reaches the end of the run, so that no further patient arrives.
NextArrival(n, t) ==
    IF n < MaxPatients THEN Expovariate(config.interarrival_mean)
    ELSE {Until(config) - t}

\* Variant of NewPatient that numbers every patient 1.
NewPatientSameId(n, t, pt, ot, rt) ==
    [id |-> 1, created_at |-> t, prep_time |-> pt, op_time |-> ot, rec_time |-> rt]

\* The patient record built by patient_generator at clock t.
NewPatient(n, t, pt, ot, rt) ==
    [id |-> n, created_at |-> t, prep_time |-> pt, op_time |-> ot, rec_time |-> rt]

\* One iteration of patient_generator: the patient is created with its three
\* sampled durations, its flow is started, and the next arrival is timed.
PatientGenerator ==
    \E e \in queue :
        /\ run = "running"
        /\ e.kind \in {"init_gen", "timer_gen"}
        /\ IsDue(e, queue)
        /\ \E pt \in Expovariate(config.prep_mean),
              ot \in Expovariate(config.op_mean),
              rt \in Expovariate(config.recovery_mean),
              ia \in NextArrival(i + 1, e.time) :
              /\ ia >= 0
              /\ now' = e.time
              /\ i' = i + 1
              /\ patient' = Append(patient, NewPatient(i + 1, e.time, pt, ot, rt))
              /\ flow' = Append(flow, NewFlow)
              /\ held' = Append(held, NewHeld)
              /\ LET k1 == Schedule(Pop(e), e.time, 0, URGENT, "init_flow", i + 1, "none")
                     k2 == Schedule(k1, e.time, ia, NORMAL, "timer_gen", 0, "none")
                 IN Commit(k2)
        /\ UNCHANGED <<config, run, metrics>>

\* --------------------------------------------------------------- patient_flow
\* Variants of OrBlockEnclosesRecovery: one branch taken whatever the flag.
NeverEncloses(cfg) == FALSE

AlwaysEncloses(cfg) == TRUE

\* The branch at `if config["block_or_until_recovery"]`: in the first branch
\* the recovery request and the recovery timer are inside the block
\* `with or_res.request()`, so the OR unit is kept until that block is left.
OrBlockEnclosesRecovery(cfg) == cfg.block_or_until_recovery

Waiting(k, r, p) == InSeq(k.putq[r], p)

\* A flow was resumed at clock t and ran to its next yield: its pc and the
\* locals it bound change, and it notes whether the request it just made has
\* to wait.
FlowMoves(p, f, k, r) ==
    /\ flow' = [flow EXCEPT ![p] = f]
    /\ held' = [held EXCEPT ![p].contended = @ \/ Waiting(k, r, p)]

\* The flow of patient p starts: it requests a prep unit and waits for it.
FlowStart ==
    \E e \in queue :
        /\ run = "running"
        /\ e.kind = "init_flow"
        /\ IsDue(e, queue)
        /\ now' = e.time
        /\ LET p == e.who
               k == Request(Pop(e), e.time, "prep", p)
           IN /\ Commit(k)
              /\ FlowMoves(p, [flow[p] EXCEPT !.pc = "prep_queued",
                                              !.arrival_to_prep_q = e.time], k, "prep")
        /\ UNCHANGED <<config, run, i, patient, metrics>>

\* `yield req` returns: preparation starts and its timer is set.
PrepGranted ==
    \E e \in queue :
        /\ run = "running"
        /\ e.kind = "grant" /\ e.res = "prep"
        /\ IsDue(e, queue)
        /\ patient[e.who].prep_time >= 0
        /\ now' = e.time
        /\ Commit(Schedule(Pop(e), e.time, patient[e.who].prep_time, NORMAL,
                           "timer", e.who, "none"))
        /\ flow' = [flow EXCEPT ![e.who].pc = "prepping", ![e.who].start_prep = e.time]
        /\ UNCHANGED <<config, run, i, patient, held, metrics>>

\* Variant of LeavePrepBlock that keeps the prep unit (as a flow would that
\* requested the OR inside the prep block).
StayInPrepBlock(k, t, p) == k

\* The exit of `with prep_res.request()`: the prep unit is released.
LeavePrepBlock(k, t, p) == Release(k, t, "prep", p)

\* The prep timer fires: the `with prep_res.request()` block is left (the
\* prep unit is released) and the OR is requested.
PrepDone ==
    \E e \in queue :
        /\ run = "running"
        /\ e.kind = "timer" /\ flow[e.who].pc = "prepping"
        /\ IsDue(e, queue)
        /\ now' = e.time
        /\ LET p == e.who
               k1 == LeavePrepBlock(Pop(e), e.time, p)
               k2 == Request(k1, e.time, "op", p)
           IN /\ Commit(k2)
              /\ FlowMoves(p, [flow[p] EXCEPT !.pc = "or_queued",
                                              !.end_prep = e.time,
                                              !.arrival_to_or_q = e.time], k2, "op")
        /\ UNCHANGED <<config, run, i, patient, metrics>>

\* `yield or_req` returns: the operation starts and its timer is set.
OrGranted ==
    \E e \in queue :
        /\ run = "running"
        /\ e.kind = "grant" /\ e.res = "op"
        /\ IsDue(e, queue)
        /\ patient[e.who].op_time >= 0
        /\ now' = e.time
        /\ Commit(Schedule(Pop(e), e.time, patient[e.who].op_time, NORMAL,
                           "timer", e.who, "none"))
        /\ flow' = [flow EXCEPT ![e.who].pc = "operating", ![e.who].start_op = e.time]
        /\ UNCHANGED <<config, run, i, patient, held, metrics>>

\* The operation timer fires.  In the first branch the recovery unit is
\* requested inside the OR block; in the second the OR block is left first.
OpDone ==
    \E e \in queue :
        /\ run = "running"
        /\ e.kind = "timer" /\ flow[e.who].pc = "operating"
        /\ IsDue(e, queue)
        /\ now' = e.time
        /\ LET p == e.who
               inside == OrBlockEnclosesRecovery(config)
               k1 == IF inside THEN Pop(e) ELSE Release(Pop(e), e.time, "op", p)
               k2 == Request(k1, e.time, "recovery", p)
           IN /\ Commit(k2)
              /\ flow' = [flow EXCEPT ![p].pc = "rec_queued",
                                      ![p].end_op = e.time,
                                      ![p].arrival_to_rec_q = e.time]
              /\ held' = [held EXCEPT
                    ![p].contended = @ \/ Waiting(k2, "recovery", p),
                    ![p].or_release = IF inside THEN @ ELSE e.time]
        /\ UNCHANGED <<config, run, i, patient, metrics>>

\* `yield rec_req` returns: recovery starts and its timer is set.
RecGranted ==
    \E e \in queue :
        /\ run = "running"
        /\ e.kind = "grant" /\ e.res = "recovery"
        /\ IsDue(e, queue)
        /\ patient[e.who].rec_time >= 0
        /\ now' = e.time
        /\ Commit(Schedule(Pop(e), e.time, patient[e.who].rec_time, NORMAL,
                           "timer", e.who, "none"))
        /\ flow' = [flow EXCEPT ![e.who].pc = "recovering", ![e.who].start_rec = e.time]
        /\ UNCHANGED <<config, run, i, patient, held, metrics>>

\* Variant of TimingRecord that measures the OR wait from the end of the
\* prep wait instead of from the arrival in the OR queue.
TimingRecordSlip(pt, f) ==
    [id |-> pt.id, arrival |-> pt.created_at, end |-> f.end_rec,
     total_time |-> f.end_rec - pt.created_at,
     prep_wait |-> f.start_prep - f.arrival_to_prep_q,
     or_wait |-> f.start_op - f.start_prep,
     rec_wait |-> f.start_rec - f.arrival_to_rec_q]

\* Variant of TimingRecord that measures the total from the start of
\* preparation instead of from the creation of the patient.
TimingRecordFromPrep(pt, f) ==
    [id |-> pt.id, arrival |-> pt.created_at, end |-> f.end_rec,
     total_time |-> f.end_rec - f.start_prep,
     prep_wait |-> f.start_prep - f.arrival_to_prep_q,
     or_wait |-> f.start_op - f.arrival_to_or_q,
     rec_wait |-> f.start_rec - f.arrival_to_rec_q]

\* The record patient_flow appends for patient pt with locals f.
TimingRecord(pt, f) ==
    [id |-> pt.id, arrival |-> pt.created_at, end |-> f.end_rec,
     total_time |-> f.end_rec - pt.created_at,
     prep_wait |-> f.start_prep - f.arrival_to_prep_q,
     or_wait |-> f.start_op - f.arrival_to_or_q,
     rec_wait |-> f.start_rec - f.arrival_to_rec_q]

\* Variant of Recorded that appends the record without counting it.
RecordedUncounted(m, rec) == [m EXCEPT !.patient_times = Append(@, rec)]

\* The end of patient_flow: the completed counter is incremented and the
\* record is appended.
Recorded(m, rec) ==
    [m EXCEPT !.completed = @ + 1, !.patient_times = Append(@, rec)]

\* The recovery timer fires: the recovery block is left, then (first branch)
\* the OR block that encloses it, and the patient's metrics are recorded.
RecDone ==
    \E e \in queue :
        /\ run = "running"
        /\ e.kind = "timer" /\ flow[e.who].pc = "recovering"
        /\ IsDue(e, queue)
        /\ now' = e.time
        /\ LET p == e.who
               inside == OrBlockEnclosesRecovery(config)
               k1 == Release(Pop(e), e.time, "recovery", p)
               k2 == IF inside THEN Release(k1, e.time, "op", p) ELSE k1
               f == [flow[p] EXCEPT !.pc = "done", !.end_rec = e.time]
           IN /\ Commit(k2)
              /\ flow' = [flow EXCEPT ![p] = f]
              /\ held' = [held EXCEPT ![p].or_release = IF inside THEN e.time ELSE @]
              /\ metrics' = Recorded(metrics, TimingRecord(patient[p], f))
        /\ UNCHANGED <<config, run, i, patient>>

\* A release event is dispatched: its callback serves the pool's queue.
ReleaseDone ==
    \E e \in queue :
        /\ run = "running"
        /\ e.kind = "release"
        /\ IsDue(e, queue)
        /\ now' = e.time
        /\ Commit(TriggerPut(Pop(e), e.time, e.res))
        /\ UNCHANGED <<config, run, i, patient, flow, held, metrics>>

\* -------------------------------------------------------------------- monitor
\* Variant of SnapshotDelay that waits one minute too long.
SnapshotDelayLate(cfg) == cfg.monitor_interval + 1

\* The delay of the monitor's `yield env.timeout(interval)`.
SnapshotDelay(cfg) == cfg.monitor_interval

\* or_res.count / or_res.capacity, kept as the fraction it is.
Utilization(k) == [num |-> Count(k, "op"), den |-> Capacity(config, "op")]

\* Variant of Sampled that also resets the completed counter.
SampledAndReset(m, k, t) ==
    [m EXCEPT !.prep_q = Append(@, <<t, Len(k.putq["prep"])>>),
              !.or_q = Append(@, <<t, Len(k.putq["op"])>>),
              !.rec_q = Append(@, <<t, Len(k.putq["recovery"])>>),
              !.or_util = Append(@, <<t, [num |-> Count(k, "op"),
                                          den |-> Capacity(config, "op")]>>),
              !.completed = 0]

\* One iteration of monitor at clock t: a (time, value) entry on each series.
Sampled(m, k, t) ==
    [m EXCEPT !.prep_q = Append(@, <<t, Len(k.putq["prep"])>>),
              !.or_q = Append(@, <<t, Len(k.putq["op"])>>),
              !.rec_q = Append(@, <<t, Len(k.putq["recovery"])>>),
              !.or_util = Append(@, <<t, Utilization(k)>>)]

Monitor ==
    \E e \in queue :
        /\ run = "running"
        /\ e.kind \in {"init_mon", "timer_mon"}
        /\ IsDue(e, queue)
        /\ SnapshotDelay(config) >= 0
        /\ now' = e.time
        /\ metrics' = Sampled(metrics, Kernel, e.time)
        /\ Commit(Schedule(Pop(e), e.time, SnapshotDelay(config), NORMAL,
                           "timer_mon", 0, "none"))
        /\ UNCHANGED <<config, run, i, patient, flow, held>>

\* ---------------------------------------------------------------- the run
Next ==
    \/ RunSim
    \/ PatientGenerator
    \/ FlowStart
    \/ PrepGranted
    \/ PrepDone
    \/ OrGranted
    \/ OpDone
    \/ RecGranted
    \/ RecDone
    \/ ReleaseDone
    \/ Monitor
    \/ StopSimulation

Spec == Init /\ [][Next]_vars

\* The runs with a horizon long enough for every created patient to finish,
\* under fair dispatch: env.run keeps stepping while an event is due.
InitLong ==
    InitWith({[Run(1, 1, 1, 2, b) EXCEPT !.sim_duration = LongHorizon] : b \in BOOLEAN})

SpecLong == InitLong /\ [][Next]_vars /\ WF_vars(Next)

\* The runs of both modes that last long enough for patients that had to
\* wait to be recorded, and end while others are still in the pipeline.
InitBusy ==
    InitWith({[Run(1, 1, 1, 2, b) EXCEPT !.sim_duration = Horizon + 2] : b \in BOOLEAN})

SpecBusy == InitBusy /\ [][Next]_vars

\* The runs of both modes in which the monitor samples every minute, so that
\* its wake-ups fall on the clock times of releases and on the horizon.
InitMinutely == InitWith({Run(1, 1, 1, 1, b) : b \in BOOLEAN})

SpecMinutely == InitMinutely /\ [][Next]_vars

\* ------------------------------------------------- invalid configurations
\* The options the specification requires to be positive.
InvalidConfiguration(cfg) ==
    \/ cfg.prep_units <= 0 \/ cfg.op_units <= 0 \/ cfg.recovery_units <= 0
    \/ cfg.interarrival_mean <= 0 \/ cfg.prep_mean <= 0
    \/ cfg.op_mean <= 0 \/ cfg.recovery_mean <= 0
    \/ cfg.monitor_interval <= 0

\* The valid configuration, and that configuration with one option made
\* non-positive.  (monitor_interval = 0 is left out: the monitor then
\* re-arms at the same clock time for ever and the run never ends.)
Configurations ==
    LET ok == Run(1, 1, 1, 2, TRUE)
    IN {ok}
       \cup {[ok EXCEPT ![o] = v] :
                o \in {"prep_units", "op_units", "recovery_units", "interarrival_mean",
                       "prep_mean", "op_mean", "recovery_mean"},
                v \in {0, -1}}
       \cup {[ok EXCEPT !.monitor_interval = -1]}

InitAny == InitWith(Configurations)

\* A pool's constructor (or env.run) raises ValueError: run_sim ends there.
RunSimRaises ==
    /\ run = "init"
    /\ ~Constructible(config)
    /\ run' = "error"
    /\ UNCHANGED <<config, now, eid, queue, users, putq, reqs, grants,
                   i, patient, flow, held, metrics>>

\* A process raised: its failure is scheduled as a NORMAL event.
Fails(k, t) == Schedule(k, t, 0, NORMAL, "fail", 0, "none")

\* patient_generator raises.  A zero stage mean raises ZeroDivisionError while
\* the patient record is built; otherwise the flow is started and the
\* interarrival draw raises (zero mean) or env.timeout rejects a negative delay.
PatientGeneratorRaises ==
    \E e \in queue :
        /\ run = "running"
        /\ e.kind \in {"init_gen", "timer_gen"}
        /\ IsDue(e, queue)
        /\ now' = e.time
        /\ i' = i + 1
        /\ \/ /\ \/ config.prep_mean = 0
                 \/ config.op_mean = 0
                 \/ config.recovery_mean = 0
              /\ Commit(Fails(Pop(e), e.time))
              /\ UNCHANGED <<patient, flow, held>>
           \/ /\ \/ config.interarrival_mean = 0
                 \/ \E ia \in NextArrival(i + 1, e.time) : ia < 0
              /\ \E pt \in Expovariate(config.prep_mean),
                    ot \in Expovariate(config.op_mean),
                    rt \in Expovariate(config.recovery_mean) :
                    /\ patient' = Append(patient, NewPatient(i + 1, e.time, pt, ot, rt))
                    /\ flow' = Append(flow, NewFlow)
                    /\ held' = Append(held, NewHeld)
                    /\ Commit(Fails(Schedule(Pop(e), e.time, 0, URGENT,
                                             "init_flow", i + 1, "none"), e.time))
        /\ UNCHANGED <<config, run, metrics>>

\* patient_flow raises: env.timeout rejects a negative stage duration.  The
\* `with` blocks the flow is in are left, releasing their units.
FlowRaises ==
    \E e \in queue :
        /\ run = "running"
        /\ e.kind = "grant"
        /\ IsDue(e, queue)
        /\ now' = e.time
        /\ LET p == e.who
               k1 == Release(Pop(e), e.time, e.res, p)
               k2 == IF e.res = "recovery" /\ OrBlockEnclosesRecovery(config)
                     THEN Release(k1, e.time, "op", p) ELSE k1
           IN /\ \/ e.res = "prep" /\ patient[p].prep_time < 0
                 \/ e.res = "op" /\ patient[p].op_time < 0
                 \/ e.res = "recovery" /\ patient[p].rec_time < 0
              /\ Commit(Fails(k2, e.time))
              /\ flow' = [flow EXCEPT ![p].pc = "failed"]
        /\ UNCHANGED <<config, run, i, patient, held, metrics>>

\* monitor raises: the snapshot is appended, then env.timeout rejects the
\* negative interval.
MonitorRaises ==
    \E e \in queue :
        /\ run = "running"
        /\ e.kind \in {"init_mon", "timer_mon"}
        /\ IsDue(e, queue)
        /\ SnapshotDelay(config) < 0
        /\ now' = e.time
        /\ metrics' = Sampled(metrics, Kernel, e.time)
        /\ Commit(Fails(Pop(e), e.time))
        /\ UNCHANGED <<config, run, i, patient, flow, held>>

\* The failure of a process is dispatched: env.run re-raises it.
ProcessFailed ==
    \E e \in queue :
        /\ run = "running"
        /\ e.kind = "fail"
        /\ IsDue(e, queue)
        /\ now' = e.time
        /\ run' = "error"
        /\ Commit(Pop(e))
        /\ UNCHANGED <<config, i, patient, flow, held, metrics>>

NextAny ==
    \/ Next
    \/ RunSimRaises
    \/ PatientGeneratorRaises
    \/ FlowRaises
    \/ MonitorRaises
    \/ ProcessFailed

SpecAny == InitAny /\ [][NextAny]_vars

\* ------------------------------------------------ hospital_model (mkB variant)
\* A Python list as a function on 0 .. len - 1.
List(s) == [n \in 0..(Len(s) - 1) |-> s[n + 1]]

\* conf as hospital_model reads it (means: interarrival, prep, op, recovery),
\* with `time`, the argument of run_for.
MakeConf(total, staffed, means, mi, time) ==
    [total |-> List(total), staffed |-> List(staffed), means |-> List(means),
     monitor_interval |-> mi, time |-> time]

\* The modelled runs of the variant: one unit of everything; and two prep
\* rooms of which one is staffed, with two operating rooms.
Confs ==
    {MakeConf(<<1, 1, 1>>, <<1, 1, 1>>, <<1, 1, 1, 1>>, 2, Horizon),
     MakeConf(<<2, 2, 1>>, <<1, 2, 1>>, <<1, 1, 1, 1>>, 2, Horizon)}

\* self.results as built by __init__.
NoResults ==
    [patient_flow |-> <<>>, patient_counts |-> List(<<0, 0, 0, 0>>),
     total_active |-> List(<<0, 0, 0>>), util_active |-> List(<<0, 0, 0>>),
     snapshots |-> <<>>, or_time_blocked |-> 0]

\* The state __init__ leaves: empty facilities and slack lists (kept in
\* `held`), and the start events of monitor_mkB and patient_generator_mkB.
InitMkBWith(cfgs) ==
    /\ config \in cfgs
    /\ run = "built"
    /\ now = 0
    /\ eid = 2
    /\ queue = {[time |-> 0, prio |-> URGENT, eid |-> 0, kind |-> "init_mon",
                 who |-> 0, res |-> "none"],
                [time |-> 0, prio |-> URGENT, eid |-> 1, kind |-> "init_gen",
                 who |-> 0, res |-> "none"]}
    /\ users = EmptyPools
    /\ putq = EmptyPools
    /\ reqs = EmptyPools
    /\ grants = EmptyPools
    /\ i = 0
    /\ patient = <<>>
    /\ flow = <<>>
    /\ held = [r \in Pools |-> <<>>]
    /\ metrics = NoResults

InitMkB == InitMkBWith(Confs)

\* run_for, first loop: the slack requests of the previous call are popped
\* (last first) and released.
RECURSIVE ReleaseSlack(_, _, _, _)
ReleaseSlack(k, t, r, slack) ==
    IF slack = <<>> THEN k
    ELSE ReleaseSlack(Release(k, t, r, slack[Len(slack)]), t, r,
                      SubSeq(slack, 1, Len(slack) - 1))

\* run_for, second loop: n slack requests are made on the pool of stage r;
\* one that is not granted at once is moved to the head of the queue.  The
\* result is the kernel state and the list of the requests made.
RECURSIVE RequestSlack(_, _, _, _, _)
RequestSlack(k, t, r, n, slack) ==
    IF n <= 0 THEN [k |-> k, slack |-> slack]
    ELSE LET id == 0 - (Len(k.reqs[r]) + 1)
             k1 == Request(k, t, r, id)
             q == k1.putq[r]
             k2 == IF Len(q) > 0
                   THEN [k1 EXCEPT !.putq[r] = <<q[Len(q)]>> \o SubSeq(q, 1, Len(q) - 1)]
                   ELSE k1
         IN RequestSlack(k2, t, r, n - 1, Append(slack, id))

\* One iteration of run_for's loop over the facilities.
RefreshFacility(ks, t, r) ==
    LET k1 == ReleaseSlack(ks.k, t, r, ks.slack[r])
        n == config.total[FacilityIndex(r)] - config.staffed[FacilityIndex(r)]
        made == RequestSlack(k1, t, r, n, <<>>)
    IN [k |-> made.k, slack |-> [ks.slack EXCEPT ![r] = made.slack]]

\* The body of run_for(time): the slack of every facility is refreshed (the
\* slack requests of the previous call released, new ones made), then env.run
\* schedules the URGENT stop event at now + time.
RunForCall ==
    /\ LET s0 == [k |-> Kernel, slack |-> held]
           s1 == RefreshFacility(s0, now, "prep")
           s2 == RefreshFacility(s1, now, "op")
           s3 == RefreshFacility(s2, now, "recovery")
       IN /\ Commit(Schedule(s3.k, now, config.time, URGENT, "stop", 0, "none"))
          /\ held' = s3.slack
    /\ run' = "running"
    /\ UNCHANGED <<config, now, i, patient, flow, metrics>>

\* The first call of run_for, on the model __init__ built.
RunFor ==
    /\ run = "built"
    /\ config.time > 0
    /\ RunForCall

\* The clock at which the last run_for call of the modelled caller returns:
\* `calls` calls of run_for(time) where the conf names them, one otherwise.
EndOfRuns(cfg) ==
    IF "calls" \in DOMAIN cfg THEN cfg.time * cfg.calls ELSE cfg.time

\* A later call of run_for, made when the previous env.run has returned.
RunForAgain ==
    /\ run = "stopped"
    /\ config.time > 0
    /\ now < EndOfRuns(config)
    /\ RunForCall

\* The grant of a slack request is dispatched: nothing waits for it.
SlackGranted ==
    \E e \in queue :
        /\ run = "running"
        /\ e.kind = "grant" /\ e.who < 0
        /\ IsDue(e, queue)
        /\ now' = e.time
        /\ Commit(Pop(e))
        /\ UNCHANGED <<config, run, i, patient, flow, held, metrics>>

\* The interarrival draw of patient_generator_mkB, with the same cap on the
\* number of patients as NextArrival.
NextArrivalMkB(n, t) ==
    IF n < MaxPatients THEN Expovariate(config.means[0])
    ELSE {EndOfRuns(config) - t}

\* One iteration of patient_generator_mkB: a patient process is started and
\* the next arrival is timed.
PatientGeneratorMkB ==
    \E e \in queue :
        /\ run = "running"
        /\ e.kind \in {"init_gen", "timer_gen"}
        /\ IsDue(e, queue)
        /\ \E ia \in NextArrivalMkB(i + 1, e.time) :
              /\ ia >= 0
              /\ now' = e.time
              /\ i' = i + 1
              /\ flow' = Append(flow, [pc |-> "spawned", block_start |-> Unset,
                                       waited |-> FALSE])
              /\ LET k1 == Schedule(Pop(e), e.time, 0, URGENT, "init_flow", i + 1, "none")
                     k2 == Schedule(k1, e.time, ia, NORMAL, "timer_gen", 0, "none")
                 IN Commit(k2)
        /\ UNCHANGED <<config, run, patient, held, metrics>>

\* resu[key][n] += d.
Add(resu, key, n, d) == [resu EXCEPT ![key][n] = @ + d]

\* Variant of Moved that forgets to count the patient out of the stage it
\* leaves.
MovedWithoutLeaving(resu, a, b) == Add(resu, "patient_counts", b, 1)

\* patient_counts[a] -= 1; patient_counts[b] += 1.
Moved(resu, a, b) == Add(Add(resu, "patient_counts", a, -1), "patient_counts", b, 1)

\* flow_times[n] = t for the patient whose list is patient_flow[p].
Stamp(resu, p, n, t) == [resu EXCEPT !.patient_flow[p][n] = t]

\* patient_mkB up to `yield prep`: the stage times are drawn, the flow_times
\* list is appended, a prep room is requested and the patient is counted in.
PatientMkBStart ==
    \E e \in queue :
        /\ run = "running"
        /\ e.kind = "init_flow"
        /\ IsDue(e, queue)
        /\ e.who = Len(patient) + 1
        /\ now' = e.time
        /\ \E a \in Expovariate(config.means[1]),
              b \in Expovariate(config.means[2]),
              c \in Expovariate(config.means[3]) :
              patient' = Append(patient, [req_times |-> List(<<a, b, c>>)])
        /\ Commit(Request(Pop(e), e.time, "prep", e.who))
        /\ flow' = [flow EXCEPT ![e.who].pc = "prep_queued"]
        /\ metrics' =
              Add([metrics EXCEPT !.patient_flow =
                      Append(@, List(<<e.time, 0, 0, 0, 0>>))],
                  "patient_counts", 0, 1)
        /\ UNCHANGED <<config, run, i, held>>

\* `yield prep` returns: the patient is taken to a prep room.
PatientMkBPrepGranted ==
    \E e \in queue :
        /\ run = "running"
        /\ e.kind = "grant" /\ e.who > 0 /\ e.res = "prep"
        /\ IsDue(e, queue)
        /\ now' = e.time
        /\ Commit(Schedule(Pop(e), e.time, patient[e.who].req_times[0], NORMAL,
                           "timer", e.who, "none"))
        /\ flow' = [flow EXCEPT ![e.who].pc = "prepping"]
        /\ metrics' = Add(Stamp(metrics, e.who, 1, e.time), "patient_counts", 1, 1)
        /\ UNCHANGED <<config, run, i, patient, held>>

\* The prep timer fires: an operating room is requested, the prep room kept.
PatientMkBPrepDone ==
    \E e \in queue :
        /\ run = "running"
        /\ e.kind = "timer" /\ flow[e.who].pc = "prepping"
        /\ IsDue(e, queue)
        /\ now' = e.time
        /\ Commit(Request(Pop(e), e.time, "op", e.who))
        /\ flow' = [flow EXCEPT ![e.who].pc = "or_queued"]
        /\ metrics' = Add(metrics, "util_active", 0, patient[e.who].req_times[0])
        /\ UNCHANGED <<config, run, i, patient, held>>

\* `yield op` returns: the prep room is released and the operation starts.
PatientMkBOrGranted ==
    \E e \in queue :
        /\ run = "running"
        /\ e.kind = "grant" /\ e.who > 0 /\ e.res = "op"
        /\ IsDue(e, queue)
        /\ now' = e.time
        /\ LET p == e.who
               k1 == Release(Pop(e), e.time, "prep", p)
               m1 == Moved(metrics, 1, 2)
               m2 == Stamp(m1, p, 2, e.time)
               m3 == Add(m2, "total_active", 0,
                         m2.patient_flow[p][2] - m2.patient_flow[p][1])
           IN /\ Commit(Schedule(k1, e.time, patient[p].req_times[1], NORMAL,
                                 "timer", p, "none"))
              /\ metrics' = m3
              /\ flow' = [flow EXCEPT ![p].pc = "operating"]
        /\ UNCHANGED <<config, run, i, patient, held>>

\* The operation timer fires: a recovery bed is requested, the operating
\* room kept, and the blocked interval starts.
PatientMkBOpDone ==
    \E e \in queue :
        /\ run = "running"
        /\ e.kind = "timer" /\ flow[e.who].pc = "operating"
        /\ IsDue(e, queue)
        /\ now' = e.time
        /\ LET p == e.who
               k == Request(Pop(e), e.time, "recovery", p)
           IN /\ Commit(k)
              /\ flow' = [flow EXCEPT ![p].pc = "rec_queued",
                                      ![p].block_start = e.time,
                                      ![p].waited = Waiting(k, "recovery", p)]
        /\ metrics' = Add(metrics, "util_active", 1, patient[e.who].req_times[1])
        /\ UNCHANGED <<config, run, i, patient, held>>

\* Variant of Blocked that measures from the start of the operation.
BlockedFromOpStart(resu, f, p, t) == t - resu.patient_flow[p][2]

\* block_end - block_start, with block_end the clock t at which `yield rec`
\* returns.
Blocked(resu, f, p, t) == t - f.block_start

\* `yield rec` returns: the blocked time is added up, the operating room is
\* released and recovery starts.
PatientMkBRecGranted ==
    \E e \in queue :
        /\ run = "running"
        /\ e.kind = "grant" /\ e.who > 0 /\ e.res = "recovery"
        /\ IsDue(e, queue)
        /\ now' = e.time
        /\ LET p == e.who
               m0 == [metrics EXCEPT
                         !.or_time_blocked = @ + Blocked(metrics, flow[p], p, e.time)]
               k1 == Release(Pop(e), e.time, "op", p)
               m1 == Moved(m0, 2, 3)
               m2 == Stamp(m1, p, 3, e.time)
               m3 == Add(m2, "total_active", 1,
                         m2.patient_flow[p][3] - m2.patient_flow[p][2])
           IN /\ Commit(Schedule(k1, e.time, patient[p].req_times[2], NORMAL,
                                 "timer", p, "none"))
              /\ metrics' = m3
              /\ flow' = [flow EXCEPT ![p].pc = "recovering"]
        /\ UNCHANGED <<config, run, i, patient, held>>

\* The recovery timer fires: the bed is released and the patient leaves.
PatientMkBRecDone ==
    \E e \in queue :
        /\ run = "running"
        /\ e.kind = "timer" /\ flow[e.who].pc = "recovering"
        /\ IsDue(e, queue)
        /\ now' = e.time
        /\ LET p == e.who
               rt == patient[p].req_times[2]
               m1 == Add(Add(metrics, "patient_counts", 3, -1), "patient_counts", 0, -1)
               m2 == Add(Add(m1, "util_active", 2, rt), "total_active", 2, rt)
           IN /\ Commit(Release(Pop(e), e.time, "recovery", p))
              /\ metrics' = Stamp(m2, p, 4, e.time)
              /\ flow' = [flow EXCEPT ![p].pc = "left"]
        /\ UNCHANGED <<config, run, i, patient, held>>

\* One iteration of monitor_mkB: a snapshot of the counters and of the
\* operating room queue.
MonitorMkB ==
    \E e \in queue :
        /\ run = "running"
        /\ e.kind \in {"init_mon", "timer_mon"}
        /\ IsDue(e, queue)
        /\ config.monitor_interval >= 0
        /\ now' = e.time
        /\ metrics' = [metrics EXCEPT !.snapshots =
                          Append(@, [time |-> e.time,
                                     patient_counts |-> metrics.patient_counts,
                                     or_queue |-> Len(putq["op"])])]
        /\ Commit(Schedule(Pop(e), e.time, config.monitor_interval, NORMAL,
                           "timer_mon", 0, "none"))
        /\ UNCHANGED <<config, run, i, patient, flow, held>>

NextMkB ==
    \/ RunFor
    \/ SlackGranted
    \/ PatientGeneratorMkB
    \/ PatientMkBStart
    \/ PatientMkBPrepGranted
    \/ PatientMkBPrepDone
    \/ PatientMkBOrGranted
    \/ PatientMkBOpDone
    \/ PatientMkBRecGranted
    \/ PatientMkBRecDone
    \/ ReleaseDone
    \/ MonitorMkB
    \/ StopSimulation

SpecMkB == InitMkB /\ [][NextMkB]_vars

\* ---------------------------------------------- repeated calls of run_for
\* The argument of each run_for call of the modelled caller.
StepTime == 2

\* A conf with the number of run_for(time) calls the caller makes.
MakeRuns(total, staffed, means, mi, time, calls) ==
    LET c == MakeConf(total, staffed, means, mi, time)
    IN [f \in DOMAIN c \cup {"calls"} |-> IF f = "calls" THEN calls ELSE c[f]]

\* The modelled callers: run_for(StepTime) is called while the next call
\* ends within the horizon, with one of two prep rooms unstaffed, or one of two recovery
\* beds.
ConfsRuns ==
    {MakeRuns(<<2, 1, 1>>, <<1, 1, 1>>, <<1, 1, 1, 1>>, 2, StepTime,
              Horizon \div StepTime),
     MakeRuns(<<1, 1, 2>>, <<1, 1, 1>>, <<1, 1, 1, 1>>, 2, StepTime,
              Horizon \div StepTime)}

InitRuns == InitMkBWith(ConfsRuns)

NextRuns ==
    \/ NextMkB
    \/ RunForAgain

SpecRuns == InitRuns /\ [][NextRuns]_vars

\* ===================================================================
\* Properties
\* ===================================================================
Patients == 1..i

Holds(r, p) == InSeq(users[r], p)

Pending(r, p) == InSeq(putq[r], p)

IsPrefix(s, t) == Len(s) <= Len(t) /\ SubSeq(t, 1, Len(s)) = s

\* C1: in every reachable state each pool has 0 <= count <= capacity, and
\* every OR-utilization sample count / capacity lies in [0, 1].
CapacityInvariant ==
    /\ \A r \in Pools : 0 <= Len(users[r]) /\ Len(users[r]) <= Capacity(config, r)
    /\ \A n \in 1..Len(metrics.or_util) :
          LET u == metrics.or_util[n][2]
          IN u.den > 0 /\ 0 <= u.num /\ u.num <= u.den

\* C1 witness: a pool is full with a request waiting, and the monitor has
\* recorded a sample of a fully used OR.
CapacityWitness ==
    /\ \E r \in Pools : Len(users[r]) = Capacity(config, r) /\ putq[r] # <<>>
    /\ \E n \in 1..Len(metrics.or_util) :
          metrics.or_util[n][2].num = metrics.or_util[n][2].den

\* C2: on each pool units are granted in request order: the sequence of
\* grants is a prefix of the sequence of requests, and the pending requests
\* are the rest of it, oldest first.
FifoGrantOrder ==
    \A r \in Pools :
        /\ IsPrefix(grants[r], reqs[r])
        /\ reqs[r] = grants[r] \o putq[r]

\* C2 witness: a patient that had to wait in the OR queue has been granted
\* its unit while a later request is still pending on that pool.
FifoWitness ==
    \E p \in Patients :
        /\ flow[p].start_op > flow[p].arrival_to_or_q
        /\ flow[p].arrival_to_or_q # Unset
        /\ putq["op"] # <<>>
        /\ \E q \in Patients : Pending("op", q) /\ flow[q].arrival_to_or_q < flow[p].start_op

\* C3 as claimed: in blocking mode the OR unit is released at the moment the
\* recovery unit is granted, so a patient in recovery holds no OR unit and
\* its OR-held interval is op_time plus its wait for recovery.
OrReleasedAtRecoveryGrant ==
    \A p \in Patients :
        (config.block_or_until_recovery /\ flow[p].pc \in {"recovering", "done"})
            => /\ ~Holds("op", p)
               /\ held[p].or_release = flow[p].start_rec
               /\ held[p].or_release - flow[p].start_op
                    = patient[p].op_time + (flow[p].start_rec - flow[p].arrival_to_rec_q)

\* C4: in blocking mode a patient holds its OR unit in every state from
\* start_op until its recovery request is granted, and the OR never has
\* more users than units, so nobody else is given that unit meanwhile.
OrHeldUntilRecoveryGranted ==
    config.block_or_until_recovery =>
        /\ \A p \in Patients :
              flow[p].pc \in {"operating", "rec_queued"}
                  => Holds("op", p) /\ held[p].or_release = Unset
        /\ Len(users["op"]) <= Capacity(config, "op")
        /\ \A m, n \in 1..Len(users["op"]) : users["op"][m] = users["op"][n] => m = n

\* C4 witness: blocking mode, a patient waits in the recovery queue while
\* holding its OR unit.
OrHeldWitness ==
    /\ config.block_or_until_recovery
    /\ \E p \in Patients :
          flow[p].pc = "rec_queued" /\ Pending("recovery", p) /\ Holds("op", p)

\* C5: in non-blocking mode the OR unit is released in the step in which the
\* operation timer fires, before the recovery request: a patient waiting for
\* or holding a recovery unit holds no OR unit, and it held the OR for
\* exactly op_time.
OrReleasedAtOpEnd ==
    ~config.block_or_until_recovery =>
        \A p \in Patients :
            /\ flow[p].pc \in {"rec_queued", "recovering", "done"}
                  => /\ ~Holds("op", p)
                     /\ held[p].or_release = flow[p].end_op
                     /\ held[p].or_release - flow[p].start_op = patient[p].op_time
            /\ (Pending("recovery", p) \/ Holds("recovery", p)) => ~Holds("op", p)
            /\ \A e \in queue :
                  (e.kind = "release" /\ e.res = "op" /\ e.who = p) =>
                      \A f \in queue :
                          (f.kind = "grant" /\ f.res = "recovery" /\ f.who = p)
                              => e.eid < f.eid

\* C5 witness: non-blocking mode, a patient waits in the recovery queue after
\* its operation.
OrReleasedWitness ==
    /\ ~config.block_or_until_recovery
    /\ \E p \in Patients : flow[p].pc = "rec_queued" /\ Pending("recovery", p)

\* C6: with a horizon that leaves the time and fair dispatch of due events,
\* every patient created eventually reaches DONE, in both modes (so it
\* leaves every queue and every stage it enters).
EveryPatientFinishes ==
    \A p \in 1..MaxPatients : (p <= i) ~> (p <= i /\ flow[p].pc = "done")

\* C6 witness: every patient of the run is DONE, one of them after waiting
\* in a queue.
EveryPatientFinishedWitness ==
    /\ i = MaxPatients
    /\ \A p \in Patients : flow[p].pc = "done"
    /\ \E p \in Patients : held[p].contended

\* C7 as claimed: a run started from an invalid configuration is rejected
\* before it starts: it never completes, the clock stays at 0, no patient is
\* created and no snapshot is appended.
InvalidConfigurationRejected ==
    InvalidConfiguration(config) =>
        /\ run # "stopped"
        /\ now = 0
        /\ i = 0
        /\ patient = <<>>
        /\ metrics = NoMetrics

SnapshotTimes(series) == [n \in 1..Len(series) |-> series[n][1]]

\* C8 as claimed: the first snapshot is taken at clock monitor_interval and
\* consecutive snapshots are monitor_interval apart.
SnapshotsStartAtFirstInterval ==
    \A n \in 1..Len(metrics.prep_q) :
        metrics.prep_q[n][1] = n * config.monitor_interval

\* C8 amended: the first snapshot is taken at clock 0, the n-th at
\* (n - 1) * monitor_interval, and the four series carry the same timestamps.
SnapshotCadence ==
    /\ \A n \in 1..Len(metrics.prep_q) :
          metrics.prep_q[n][1] = (n - 1) * config.monitor_interval
    /\ SnapshotTimes(metrics.or_q) = SnapshotTimes(metrics.prep_q)
    /\ SnapshotTimes(metrics.rec_q) = SnapshotTimes(metrics.prep_q)
    /\ SnapshotTimes(metrics.or_util) = SnapshotTimes(metrics.prep_q)

\* C8 witness: three snapshots taken while patients queue and are served.
SnapshotCadenceWitness ==
    /\ Len(metrics.prep_q) >= 3
    /\ \E n \in 1..Len(metrics.or_q) : metrics.or_q[n][2] > 0
    /\ metrics.completed > 0

NoContentionRecord ==
    \A n \in 1..Len(metrics.patient_times) :
        LET rec == metrics.patient_times[n]
            pt == patient[rec.id]
        IN ~held[rec.id].contended =>
              /\ rec.prep_wait = 0 /\ rec.or_wait = 0 /\ rec.rec_wait = 0
              /\ rec.total_time = pt.prep_time + pt.op_time + pt.rec_time

\* C10 witness: the single-server scenario with durations 10, 5 and 8: the
\* patient's record has total_time 23 and no wait.
NoContentionWitness ==
    \E n \in 1..Len(metrics.patient_times) :
        LET rec == metrics.patient_times[n]
            pt == patient[rec.id]
        IN /\ config.prep_units = 1 /\ config.op_units = 1 /\ config.recovery_units = 1
           /\ ~held[rec.id].contended
           /\ pt.prep_time = 10 /\ pt.op_time = 5 /\ pt.rec_time = 8
           /\ rec.total_time = 23
           /\ rec.prep_wait = 0 /\ rec.or_wait = 0 /\ rec.rec_wait = 0

HasRecord(p) ==
    \E n \in 1..Len(metrics.patient_times) : metrics.patient_times[n].id = p

\* The state part of C11: the counter equals the number of records, no
\* patient has two records, and a patient with a record has had its recovery
\* timer fire (its flow is done, with end_rec the record's end) and holds no
\* recovery unit.
RecordsWellFormed ==
    /\ metrics.completed = Len(metrics.patient_times)
    /\ \A m, n \in 1..Len(metrics.patient_times) :
          metrics.patient_times[m].id = metrics.patient_times[n].id => m = n
    /\ \A n \in 1..Len(metrics.patient_times) :
          LET rec == metrics.patient_times[n]
          IN /\ rec.id \in Patients
             /\ flow[rec.id].pc = "done"
             /\ flow[rec.id].end_rec = rec.end
             /\ ~Holds("recovery", rec.id)

\* The step part of C11: the records already appended stay as they are, and
\* the counter or the records change only in a step in which one patient
\* leaves recovery at its recovery timer: that step appends the one record
\* of that patient and adds one to the counter.
RecordsOnlyAppended ==
    /\ IsPrefix(metrics.patient_times, metrics'.patient_times)
    /\ (metrics'.patient_times # metrics.patient_times
            \/ metrics'.completed # metrics.completed) =>
          /\ metrics'.completed = metrics.completed + 1
          /\ Len(metrics'.patient_times) = Len(metrics.patient_times) + 1
          /\ LET rec == metrics'.patient_times[Len(metrics'.patient_times)]
             IN /\ flow[rec.id].pc = "recovering"
                /\ flow'[rec.id].pc = "done"
                /\ now' = flow[rec.id].start_rec + patient[rec.id].rec_time
                /\ InSeq(users["recovery"], rec.id)
                /\ ~InSeq(users'["recovery"], rec.id)

\* C11: a timing record is appended, and completed incremented, only when a
\* patient's recovery timer has fired and it has released its recovery unit;
\* completed equals the number of records, each patient has at most one
\* record, and an appended record is never changed.
RecordAppendedOnceAtRecoveryEnd ==
    []RecordsWellFormed /\ [][RecordsOnlyAppended]_vars

\* C11 witness: two patients have their records, one of them after waiting
\* for the OR, and a third is still in the pipeline without one.
RecordAppendedWitness ==
    /\ metrics.completed = 2
    /\ \E n \in 1..Len(metrics.patient_times) : metrics.patient_times[n].or_wait > 0
    /\ \E p \in Patients : flow[p].pc \notin {"done", "created"} /\ ~HasRecord(p)

\* C12: the clock never exceeds sim_duration, every record ends and every
\* snapshot is stamped at or before sim_duration, a flow that has not
\* finished recovery has no record, and when run_sim has stopped the records
\* are exactly those of the patients whose recovery timer was due before
\* sim_duration.
HorizonRespected ==
    /\ now <= config.sim_duration
    /\ \A n \in 1..Len(metrics.patient_times) :
          metrics.patient_times[n].end <= config.sim_duration
    /\ \A n \in 1..Len(metrics.prep_q) :
          /\ metrics.prep_q[n][1] <= config.sim_duration
          /\ metrics.or_q[n][1] <= config.sim_duration
          /\ metrics.rec_q[n][1] <= config.sim_duration
          /\ metrics.or_util[n][1] <= config.sim_duration
    /\ \A p \in Patients : flow[p].pc # "done" => ~HasRecord(p)
    /\ run = "stopped" =>
          /\ now = config.sim_duration
          /\ \A p \in Patients :
                HasRecord(p) <=>
                    /\ flow[p].start_rec # Unset
                    /\ flow[p].start_rec + patient[p].rec_time < config.sim_duration

\* C12 witness: the run has stopped with one patient recorded, another whose
\* recovery timer was due exactly at sim_duration and is left without a
\* record, and the monitor's next snapshot due at sim_duration not taken.
HorizonWitness ==
    /\ run = "stopped"
    /\ \E p \in Patients : HasRecord(p)
    /\ \E p \in Patients :
          /\ flow[p].pc = "recovering"
          /\ flow[p].start_rec + patient[p].rec_time = config.sim_duration
    /\ \E e \in queue : e.kind = "timer_mon" /\ e.time = config.sim_duration

\* C14: the prep unit is released in the step in which the prep timer fires,
\* before the OR request is issued: a patient holds a prep unit only while
\* it is in the prep stage, never while it waits for or holds the OR, and
\* its prep release precedes its OR grant in the event order.
PrepReleasedBeforeOr ==
    /\ \A p \in Patients :
          /\ (Pending("op", p) \/ Holds("op", p)) => ~Holds("prep", p)
          /\ Holds("prep", p) => flow[p].pc \in {"prep_queued", "prepping"}
          /\ flow[p].end_prep # Unset =>
                /\ flow[p].end_prep = flow[p].start_prep + patient[p].prep_time
                /\ flow[p].arrival_to_or_q = flow[p].end_prep
    /\ \A e \in queue :
          (e.kind = "release" /\ e.res = "prep") =>
              \A f \in queue :
                  (f.kind = "grant" /\ f.res = "op" /\ f.who = e.who) => e.eid < f.eid

\* C14 witness: a patient waits in the OR queue while a later arrival has
\* been given the prep unit.
PrepReleasedWitness ==
    \E p, q \in Patients :
        /\ p < q
        /\ Pending("op", p)
        /\ Len(putq["op"]) >= 1
        /\ flow[q].pc = "prepping"
        /\ config.prep_units = 1

\* C15 as claimed: a unit is never idle while a request is pending, also in
\* the states a monitor sample sees: every sample that finds patients in the
\* OR queue finds the OR fully used.
NoIdleUnitWhileWaiting ==
    \A n \in 1..Len(metrics.or_q) :
        metrics.or_q[n][2] > 0 =>
            metrics.or_util[n][2].num = metrics.or_util[n][2].den

IdleUnits(r) == Capacity(config, r) - Len(users[r])

PendingReleases(r) ==
    {e \in queue : e.kind = "release" /\ e.res = r /\ e.time = now}

\* C15 amended: release frees the unit at once and hands it to the head
\* waiter when the release event is dispatched, at the same clock time: a
\* pool has idle units while requests are pending only if as many release
\* events of that pool are still due at the current clock time, so the
\* head waiter is served before the clock advances.
IdleOnlyUntilReleaseDispatched ==
    \A r \in Pools :
        (run = "running" /\ putq[r] # <<>>) =>
            IdleUnits(r) <= Cardinality(PendingReleases(r))

\* C15 witness: the monitor has sampled the OR with a patient in its queue
\* and a unit idle, the release event still pending.
IdleUntilReleaseWitness ==
    /\ \E n \in 1..Len(metrics.or_q) :
          /\ metrics.or_q[n][2] > 0
          /\ metrics.or_util[n][2].num < metrics.or_util[n][2].den
          /\ metrics.or_q[n][1] = now
    /\ putq["op"] # <<>>
    /\ IdleUnits("op") > 0
    /\ PendingReleases("op") # {}

\* Patient p is between its grant and its release on pool r.
InStage(r, p) ==
    /\ CASE r = "prep" -> flow[p].pc \in {"prep_queued", "prepping"}
         [] r = "op" ->
              \/ flow[p].pc \in {"or_queued", "operating"}
              \/ /\ config.block_or_until_recovery
                 /\ flow[p].pc \in {"rec_queued", "recovering"}
         [] r = "recovery" -> flow[p].pc \in {"rec_queued", "recovering"}
    /\ InSeq(grants[r], p)

NoDuplicate(s) == \A m \in 1..Len(s) : \A n \in (m + 1)..Len(s) : s[m] # s[n]

\* C16: every patient acquires and releases each pool exactly once: the
\* users of a pool are, without repetition, the patients between their grant
\* and their release on it (so its count is their number), no patient
\* requests a pool twice, and a patient with a timing record was granted
\* each pool and holds none.
UnitsConserved ==
    /\ \A r \in Pools :
          /\ NoDuplicate(users[r])
          /\ NoDuplicate(reqs[r])
          /\ \A n \in 1..Len(users[r]) : users[r][n] \in Patients
          /\ \A p \in Patients : Holds(r, p) <=> InStage(r, p)
    /\ \A n \in 1..Len(metrics.patient_times) :
          \A r \in Pools :
              LET p == metrics.patient_times[n].id
              IN InSeq(grants[r], p) /\ ~Holds(r, p) /\ ~Pending(r, p)

\* C16 witness: with a record written, every pool is in use by a patient in
\* flight.
UnitsConservedWitness ==
    /\ metrics.completed >= 1
    /\ \A r \in Pools : users[r] # <<>>

GeneratorTimers == {e \in queue : e.kind = "timer_gen"}

\* C17: the generator creates patient 1 at clock 0, numbers the patients
\* 1, 2, 3, ... with non-decreasing created_at, and in the step that spawns
\* a patient schedules the next arrival: while the run goes on, one arrival
\* timer is pending whatever the state of the flows spawned so far.
GeneratorNeverBlocked ==
    /\ Len(patient) = i
    /\ \A n \in 1..i : patient[n].id = n
    /\ i >= 1 => patient[1].created_at = 0
    /\ \A n \in 1..(i - 1) : patient[n].created_at <= patient[n + 1].created_at
    /\ (run = "running" /\ now > 0) => i >= 1
    /\ (run = "running" /\ i >= 1) =>
          /\ Cardinality(GeneratorTimers) = 1
          /\ \A e \in GeneratorTimers : e.time >= patient[i].created_at

\* C17 witness: the third patient has been spawned and its successor timed
\* while it waits in the full prep queue and the earlier two are in flight.
GeneratorWitness ==
    /\ i = 3
    /\ Holds("prep", 2)
    /\ Pending("prep", 3)
    /\ flow[1].pc # "done"
    /\ GeneratorTimers # {}

MonitorTimers(q) == {e \in q : e.kind \in {"init_mon", "timer_mon"}}

\* The step part of C18: a step that changes a snapshot series changes
\* nothing of the pools, the flows, the patients or the patient records; it
\* appends to each series one entry stamped with the clock and holding the
\* value read from the pools, and replaces the monitor's wake-up by the next.
MonitorStepIsPure ==
    (\/ metrics'.prep_q # metrics.prep_q
     \/ metrics'.or_q # metrics.or_q
     \/ metrics'.rec_q # metrics.rec_q
     \/ metrics'.or_util # metrics.or_util) =>
        /\ UNCHANGED <<config, users, putq, reqs, grants, i, patient, flow>>
        /\ metrics'.completed = metrics.completed
        /\ metrics'.patient_times = metrics.patient_times
        /\ metrics'.prep_q = Append(metrics.prep_q, <<now', Len(putq["prep"])>>)
        /\ metrics'.or_q = Append(metrics.or_q, <<now', Len(putq["op"])>>)
        /\ metrics'.rec_q = Append(metrics.rec_q, <<now', Len(putq["recovery"])>>)
        /\ metrics'.or_util =
              Append(metrics.or_util,
                     <<now', [num |-> Len(users["op"]), den |-> config.op_units]>>)
        /\ \E e \in MonitorTimers(queue), f \in MonitorTimers(queue') :
              /\ queue' = (queue \ {e}) \cup {f}
              /\ e.time = now'
              /\ f.kind = "timer_mon"
              /\ f.time = now' + config.monitor_interval

\* C18: a monitor sample leaves every pool's count, capacity and queue,
\* every flow, completed and patient_times unchanged; it only appends one
\* (time, value) entry to each of the four series and schedules its next
\* wake-up.
MonitorSampleSideEffectFree == [][MonitorStepIsPure]_vars

\* C18 witness: a sample taken while a patient waits for a prep unit and the
\* OR is in use, with a record already written.
MonitorSampleWitness ==
    /\ metrics.completed >= 1
    /\ \E n \in 1..Len(metrics.prep_q) :
          /\ metrics.prep_q[n][2] > 0
          /\ metrics.or_util[n][2].num > 0

\* C19: every record has total_time = prep_wait + prep_time + or_wait +
\* op_time + rec_wait + rec_time with waits >= 0 and arrival <= end; the
\* patient joins the prep queue at its creation time, the OR queue when its
\* prep ends and the recovery queue when its operation ends.
TimeAccounted ==
    /\ \A n \in 1..Len(metrics.patient_times) :
          LET rec == metrics.patient_times[n]
              pt == patient[rec.id]
          IN /\ rec.total_time = rec.prep_wait + pt.prep_time + rec.or_wait
                                    + pt.op_time + rec.rec_wait + pt.rec_time
             /\ rec.prep_wait >= 0 /\ rec.or_wait >= 0 /\ rec.rec_wait >= 0
             /\ rec.arrival <= rec.end
             /\ rec.total_time = rec.end - rec.arrival
    /\ \A p \in Patients :
          /\ flow[p].arrival_to_prep_q # Unset =>
                flow[p].arrival_to_prep_q = patient[p].created_at
          /\ flow[p].arrival_to_or_q # Unset =>
                flow[p].arrival_to_or_q = flow[p].start_prep + patient[p].prep_time
          /\ flow[p].arrival_to_rec_q # Unset =>
                flow[p].arrival_to_rec_q = flow[p].start_op + patient[p].op_time
          /\ flow[p].end_rec # Unset =>
                flow[p].end_rec = flow[p].start_rec + patient[p].rec_time

\* C19 witness: a record of a patient that waited for the prep unit and for
\* the OR.
TimeAccountedWitness ==
    \E n \in 1..Len(metrics.patient_times) :
        /\ metrics.patient_times[n].prep_wait > 0
        /\ metrics.patient_times[n].or_wait > 0

\* The blocked intervals of patients 1 .. n whose `yield rec` has returned:
\* clock of the recovery grant (flow_times[3]) less the clock at which the
\* operation timer fired (flow_times[2] + the operation time).
RECURSIVE BlockedSum(_)
BlockedSum(n) ==
    IF n = 0 THEN 0
    ELSE BlockedSum(n - 1)
         + (IF flow[n].pc \in {"recovering", "left"}
            THEN metrics.patient_flow[n][3]
                 - (metrics.patient_flow[n][2] + patient[n].req_times[1])
            ELSE 0)

OrBlockedIsSum ==
    /\ metrics.or_time_blocked = BlockedSum(i)
    /\ (\A p \in 1..i : ~flow[p].waited) => metrics.or_time_blocked = 0
    /\ \A p \in 1..i :
          flow[p].block_start # Unset =>
              flow[p].block_start = metrics.patient_flow[p][2] + patient[p].req_times[1]

\* C13: or_time_blocked of patient_mkB is in every state the sum, over the
\* patients that have been granted a recovery bed, of the time of that grant
\* less the time at which the operation timer fired and the bed was
\* requested; it never decreases and is 0 as long as no patient has had to
\* wait for a bed.
OrBlockedTimeAccumulates ==
    []OrBlockedIsSum /\ [][metrics'.or_time_blocked >= metrics.or_time_blocked]_vars

\* C13 witness: a patient that had to wait for its bed is in recovery and its
\* wait is in or_time_blocked, after an earlier patient was granted at once.
OrBlockedWitness ==
    /\ metrics.or_time_blocked > 0
    /\ \E p, q \in 1..i :
          /\ flow[p].pc = "recovering" /\ flow[p].waited
          /\ metrics.patient_flow[p][3] > flow[p].block_start
          /\ flow[q].pc = "left" /\ ~flow[q].waited

PatientsHolding(r) == Cardinality({n \in 1..Len(users[r]) : users[r][n] > 0})

UndeliveredGrants(r) ==
    Cardinality({e \in queue : e.kind = "grant" /\ e.res = r /\ e.who > 0})

CountsInOrder ==
    /\ \A r \in Pools :
          /\ 0 <= metrics.patient_counts[FacilityIndex(r) + 1]
          /\ metrics.patient_counts[FacilityIndex(r) + 1] <= Capacity(config, r)
    /\ metrics.patient_counts[0] >=
          metrics.patient_counts[1] + metrics.patient_counts[2]
            + metrics.patient_counts[3]

\* C20 as claimed: patient_counts[1], [2] and [3] equal in every state the
\* number of patients holding a unit of facilities[0], [1] and [2], each is
\* between 0 and the capacity, and patient_counts[0] is at least their sum.
CountsEqualHolders ==
    /\ \A r \in Pools :
          metrics.patient_counts[FacilityIndex(r) + 1] = PatientsHolding(r)
    /\ CountsInOrder

\* C20 amended: a counter follows the facility when the grant is delivered
\* to the patient, at the same clock time as the grant: in every state
\* patient_counts[k] is the number of patients holding a unit of
\* facilities[k - 1] less the grants of that facility not yet delivered, so
\* 0 <= patient_counts[k] <= holders <= capacity; a patient keeps its prep
\* room until the OR grant is delivered and its OR until the recovery grant
\* is; and patient_counts[0] >= the sum of the other three.
CountsFollowDeliveredGrants ==
    /\ \A r \in Pools :
          /\ metrics.patient_counts[FacilityIndex(r) + 1]
                = PatientsHolding(r) - UndeliveredGrants(r)
          /\ PatientsHolding(r) <= Capacity(config, r)
    /\ CountsInOrder
    /\ \A p \in 1..i :
          /\ flow[p].pc \in {"prepping", "or_queued"} => Holds("prep", p)
          /\ flow[p].pc \in {"operating", "rec_queued"} => Holds("op", p)
          /\ flow[p].pc = "recovering" => Holds("recovery", p)

\* C20 witness: a patient has been granted the operating room and still
\* holds its prep room, the grant not yet delivered: the room has a holder
\* that patient_counts[2] does not count.
CountsLagWitness ==
    \E p \in 1..i :
        /\ flow[p].pc = "or_queued"
        /\ Holds("op", p) /\ Holds("prep", p)
        /\ metrics.patient_counts[2] < PatientsHolding("op")
        /\ metrics.patient_counts[0] >= 2

Staffed(r) == config.staffed[FacilityIndex(r)]

\* The slack requests run_for has made and not released since.
SlackHeld(r) == {held[r][n] : n \in 1..Len(held[r])}

\* C21: after any sequence of run_for calls with staffed <= total, at every
\* time of the run the patients hold at most conf['staffed'][i] units of
\* facility i: the total - staffed slack units are withheld from them.
SlackWithheldFromPatients ==
    \A r \in Pools :
        /\ Staffed(r) <= Capacity(config, r)
        /\ PatientsHolding(r) <= Staffed(r)

\* The state C21 fails in: the second run_for call has just been made, a
\* patient has been granted the unit the call released, and the new slack
\* request waits at the head of the queue.
SlackUnitTakenByPatient ==
    \E r \in Pools :
        /\ run = "running"
        /\ now = StepTime
        /\ PatientsHolding(r) > Staffed(r)
        /\ putq[r] # <<>> /\ Head(putq[r]) \in SlackHeld(r)
        /\ \E e \in queue : e.kind = "stop" /\ e.time = now + config.time

====
